---- MODULE Spec2Model ----
(***************************************************************************)
(* A model of the LexiClear pipeline: the verifier (server/lib/verifier.js)*)
(* with the shared regular expression CHUNK_ID_REGEX, the segmenter        *)
(* (chunkText of server/lib/mcp.js), the lazy embedding cache and the      *)
(* top-k retrieval of server/routes/ask.js.                                *)
(*                                                                         *)
(* An answer text is a sequence of lexical units (a segment identifier, a  *)
(* quoted span, a trigger term, the end of a sentence, ...), each followed *)
(* by one space.  Positions in a text (lastIndex, the place of a match)    *)
(* count characters.                                                       *)
(***************************************************************************)
EXTENDS Integers, Sequences, FiniteSets, TLC

VARIABLES
  lastIndex,   \* CHUNK_ID_REGEX.lastIndex, the state of the global /g regex
  vpc,         \* "idle" | "done": a verifier call has returned its result
  vcall,       \* the arguments of the verifier call that has just returned
  vres         \* its result

vvars == <<lastIndex, vpc, vcall, vres>>

VARIABLES
  cdoc,             \* chunkText: the document, a sequence of paragraphs
  copts,            \* chunkText: the options the caller passed
  cpc,              \* "walk" | "merge" | "done"
  cp,               \* p, the paragraph being walked
  ci,               \* i, the sentence being walked
  currentChunkSentences,
  currentChunkPos,  \* (ghost) where in the paragraph those sentences stand
  currentChunkStart,
  currentChunkTokens,
  globalCharIndex,
  chunks,
  merged,
  mi                \* i of the merge loop

cvars == <<cdoc, copts, cpc, cp, ci, currentChunkSentences, currentChunkPos,
           currentChunkStart, currentChunkTokens, globalCharIndex, chunks, merged, mi>>

VARIABLES
  efile,      \* the bundle file on disk
  epc,        \* per /api/ask request: "idle" | "embedding" | "done" | "error" | "notfound"
  ebundle,    \* per request: the bundle object it read
  ewithout,   \* per request: chunksWithoutEmb
  ei,         \* per request: i of the batch loop
  eattempts,  \* per request: the embed requests issued for the current batch
  efailed,    \* (ghost) per request: the embed requests that failed
  edeleted,   \* a deleteBundle of the bundle has returned true
  ecall       \* (ghost) per request: the running or last ensureBundleEmbeddings
              \* call on its bundle object: which call it is, the embeddings
              \* at its start, the embed requests it issued

evars == <<efile, epc, ebundle, ewithout, ei, eattempts, efailed, ecall, edeleted>>

VARIABLES
  tpc,      \* retrieveTopK: "idle" | "start" | "ensured" | "ranked" | "error"
  tbundle,  \* bundle.chunks
  ttop_k,   \* top_k of the request body
  tqEmb,    \* the embedding of the question
  tscored,  \* scored, once sorted
  ttop,     \* top
  ttopNext  \* top of a following call with k + 1

tvars == <<tpc, tbundle, ttop_k, tqEmb, tscored, ttop, ttopNext>>

VARIABLES
  bpc,      \* a request: "idle" | "llm" | "answer" | "done"
  breq,     \* the request: its route and the fields of its body
  bres,     \* what the caller got: an HTTP status, "thrown" or "bundle"; "pending" before
  bbundle,  \* the bundle createBundleForText built
  bfiles,   \* the files the request has written
  bcalls    \* the calls the request has made to the chat and embedding providers

bvars == <<bpc, breq, bres, bbundle, bfiles, bcalls>>

\* what the actions of one component leave alone
nonV == <<cvars, evars, tvars, bvars>>
nonC == <<vvars, evars, tvars, bvars>>
nonE == <<vvars, cvars, tvars, bvars>>
nonT == <<vvars, cvars, evars, bvars>>
nonB == <<vvars, cvars, evars, tvars>>

-----------------------------------------------------------------------------
(* Bounds *)

MaxLen == 4
MaxBody == 11
MaxPad == 1
MaxRawChunks == 3
\* the number of sentences of a document
MaxSentences == 4

-----------------------------------------------------------------------------
(* The lexical units *)

IdA == "bundle-x-chunk-001"
IdB == "bundle-x-chunk-002"
IdX == "bundle-x-chunk-999"
\* The texts of two chunks; TextA also stands in answers.  The units other than
\* DOT are all 18 characters long.
TextA == "term of five years"
TextB == "Either party may end it"
\* a quoted span, copied from TextA
QA == "'rm of five years'"
\* a phrase that holds the legal keywords 'confidential' and 'confidentiality'
KW == "of confidentiality"
\* the end of a sentence: a '.' and the white space after it
DOT == "."

ChunkIds == {IdA, IdB, IdX}
Quotes == {QA}
\* the units an answer is made of
Units == {IdA, IdX, QA, TextA, KW, DOT}

RECURSIVE SeqsUpTo(_, _)
SeqsUpTo(S, n) ==
  IF n = 0 THEN {<<>>}
  ELSE LET shorter == SeqsUpTo(S, n - 1)
       IN shorter \cup {Append(s, u) : s \in {t \in shorter : Len(t) = n - 1}, u \in S}

Texts == SeqsUpTo(Units, MaxLen)

\* The string of a text: its units, one space after each.  Width is the number
\* of characters a unit takes, StartOf the offset at which unit i starts, StrLen
\* the length of the string once trimmed.
Width(u) == Len(u) + 1

RECURSIVE StartOf(_, _)
StartOf(toks, i) == IF i = 1 THEN 0 ELSE StartOf(toks, i - 1) + Width(toks[i - 1])

StrLen(toks) == IF toks = <<>> THEN 0 ELSE StartOf(toks, Len(toks)) + Len(toks[Len(toks)])

Min(a, b) == IF a < b THEN a ELSE b
Max(a, b) == IF a > b THEN a ELSE b

-----------------------------------------------------------------------------
(* verifier.js *)

normalizedMatchMinLen == 30

legalKeywords ==
  << "terminate", "termination", "notice", "indemnify", "indemnity", "waive",
     "warranty", "liability", "liable", "penalty", "breach", "breaches",
     "governing law", "jurisdiction", "confidential", "confidentiality",
     "obligation", "rights", "termination", "renewal", "notice period",
     "non-compete", "severability", "assignment", "arbitration" >>

\* One step of CHUNK_ID_REGEX.exec(str) / .test(str) on a /g regex: the search
\* starts at lastIndex; a match sets lastIndex to the end of the match, a
\* failure (also lastIndex > str.length) sets it to 0.
RegexExec(toks, li) ==
  LET hits == {i \in 1..Len(toks) : toks[i] \in ChunkIds /\ StartOf(toks, i) >= li}
  IN IF li > StrLen(toks) \/ hits = {}
     THEN [found |-> FALSE, id |-> "", lastIndex |-> 0]
     ELSE LET i == CHOOSE j \in hits : \A k \in hits : j <= k
          IN [found |-> TRUE, id |-> toks[i],
              lastIndex |-> StartOf(toks, i) + Len(toks[i])]

InSeq(x, s) == \E i \in 1..Len(s) : s[i] = x

\* the while loop of extractChunkIds: ids is a Set, kept in insertion order
RECURSIVE ExecLoop(_, _, _)
ExecLoop(toks, li, ids) ==
  LET m == RegexExec(toks, li)
  IN IF ~m.found THEN [ids |-> ids, lastIndex |-> m.lastIndex]
     ELSE ExecLoop(toks, m.lastIndex,
                   IF InSeq(m.id, ids) THEN ids ELSE Append(ids, m.id))

extractChunkIds(toks, li) ==
  IF toks = <<>> THEN [ids |-> <<>>, lastIndex |-> li]
  ELSE ExecLoop(toks, li, <<>>)

\* mapChunksById(bundle).get(id): the last chunk carrying the id, or none
ChunkMapHas(bundle, id) ==
  bundle.hasChunks /\ \E i \in 1..Len(bundle.chunks) : bundle.chunks[i].chunk_id = id

ChunkMapGet(bundle, id) ==
  LET is == {i \in 1..Len(bundle.chunks) : bundle.chunks[i].chunk_id = id}
  IN bundle.chunks[CHOOSE i \in is : \A k \in is : k <= i]

\* extractQuotedSnippets: the spans between quotes of 5..500 characters
SnippetOf(u) == IF u = QA THEN "rm of five years" ELSE ""

RECURSIVE SelectSeq2(_, _)
SelectSeq2(s, S) ==
  IF s = <<>> THEN <<>>
  ELSE IF Head(s) \in S THEN <<Head(s)>> \o SelectSeq2(Tail(s), S)
  ELSE SelectSeq2(Tail(s), S)

RECURSIVE MapSnippet(_)
MapSnippet(s) == IF s = <<>> THEN <<>> ELSE <<SnippetOf(Head(s))>> \o MapSnippet(Tail(s))

extractQuotedSnippets(toks) ==
  MapSnippet(SelectSeq2(toks, {u \in Quotes : Len(SnippetOf(u)) >= 5 /\ Len(SnippetOf(u)) <= 500}))

\* String.includes among the literals of the model
RawIncludes(text, snippet) == text = TextA /\ snippet = "rm of five years"

\* normalizeText(text).includes(normalizeText(snippet))
NormIncludes(text, snippet) == text = TextA /\ snippet = "rm of five years"

doesSnippetMatchChunk(snippet, chunkText) ==
  IF RawIncludes(chunkText, snippet) THEN [matched |-> TRUE, match_type |-> "exact"]
  ELSE IF Len(snippet) >= normalizedMatchMinLen /\ NormIncludes(chunkText, snippet)
  THEN [matched |-> TRUE, match_type |-> "normalized"]
  ELSE IF Min(40, Len(snippet)) >= 12 /\ NormIncludes(chunkText, snippet)
  THEN [matched |-> TRUE, match_type |-> "prefix"]
  ELSE [matched |-> FALSE, match_type |-> "none"]

\* the first quoted snippet that matches the chunk, 0 when none does
FirstMatch(snippets, chunkText) ==
  LET is == {i \in 1..Len(snippets) : doesSnippetMatchChunk(snippets[i], chunkText).matched}
  IN IF is = {} THEN 0 ELSE CHOOSE i \in is : \A k \in is : i <= k

\* probe.length >= 12 && normalizeText(responseText).includes(probe), with
\* probe the first 120 characters of the normalized chunk text
ProbeInResponse(toks, chunkText) ==
  Min(120, Len(chunkText)) >= 12 /\ InSeq(chunkText, toks)

\* one turn of the loop over the cited ids (step 4)
SnippetEntry(bundle, toks, chunkId) ==
  IF ~ChunkMapHas(bundle, chunkId)
  THEN [chunk_id |-> chunkId, snippet |-> "", matched |-> FALSE, match_type |-> "none"]
  ELSE LET chunk == ChunkMapGet(bundle, chunkId)
           quoted == extractQuotedSnippets(toks)
           f == FirstMatch(quoted, chunk.text)
       IN IF f > 0
          THEN [chunk_id |-> chunkId, snippet |-> quoted[f], matched |-> TRUE,
                match_type |-> doesSnippetMatchChunk(quoted[f], chunk.text).match_type]
          ELSE IF ProbeInResponse(toks, chunk.text)
          THEN [chunk_id |-> chunkId, snippet |-> chunk.text, matched |-> TRUE,
                match_type |-> "chunk-prefix"]
          ELSE [chunk_id |-> chunkId, snippet |-> "", matched |-> FALSE,
                match_type |-> "none"]

RECURSIVE MatchedSnippets(_, _, _)
MatchedSnippets(bundle, toks, cited) ==
  IF cited = <<>> THEN <<>>
  ELSE <<SnippetEntry(bundle, toks, Head(cited))>>
       \o MatchedSnippets(bundle, toks, Tail(cited))

\* missing_snippet_matches gets an entry only on the "no snippet match for this
\* cited chunk" branch, which an unknown id never reaches
RECURSIVE MissingSnippetMatches(_, _, _)
MissingSnippetMatches(bundle, toks, cited) ==
  IF cited = <<>> THEN <<>>
  ELSE (IF ChunkMapHas(bundle, Head(cited))
           /\ ~SnippetEntry(bundle, toks, Head(cited)).matched
        THEN <<Head(cited)>> ELSE <<>>)
       \o MissingSnippetMatches(bundle, toks, Tail(cited))

RECURSIVE FilterUnknown(_, _)
FilterUnknown(bundle, cited) ==
  IF cited = <<>> THEN <<>>
  ELSE (IF ChunkMapHas(bundle, Head(cited)) THEN <<>> ELSE <<Head(cited)>>)
       \o FilterUnknown(bundle, Tail(cited))

\* responseText.split(sentenceSplitterRegex).map(trim).filter(Boolean): a cut
\* at the white space that follows a '.', '?' or '!'
RECURSIVE SplitFrom(_, _, _)
SplitFrom(toks, i, cur) ==
  IF i > Len(toks) THEN (IF cur = <<>> THEN <<>> ELSE <<cur>>)
  ELSE IF toks[i] = DOT
  THEN <<Append(cur, toks[i])>> \o SplitFrom(toks, i + 1, <<>>)
  ELSE SplitFrom(toks, i + 1, Append(cur, toks[i]))

VerifierSentences(toks) == SplitFrom(toks, 1, <<>>)

\* low.includes(kw) among the literals of the model
KeywordIn(kw, sent) == InSeq(KW, sent) /\ kw \in {"confidential", "confidentiality"}

\* the first kw of the list that the sentence holds, 0 if none
FirstKeyword(sent) ==
  LET ks == {k \in 1..Len(legalKeywords) : KeywordIn(legalKeywords[k], sent)}
  IN IF ks = {} THEN 0 ELSE CHOOSE k \in ks : \A j \in ks : k <= j

\* the loop of step 5: CHUNK_ID_REGEX.test(sent) runs on the shared regex
RECURSIVE HallucinationLoop(_, _, _, _)
HallucinationLoop(sents, k, li, flagged) ==
  IF k > Len(sents) THEN [flagged |-> flagged, lastIndex |-> li]
  ELSE LET t == RegexExec(sents[k], li)
       IN IF t.found THEN HallucinationLoop(sents, k + 1, t.lastIndex, flagged)
          ELSE HallucinationLoop(sents, k + 1, t.lastIndex,
                 IF FirstKeyword(sents[k]) > 0
                 THEN Append(flagged, [sentence |-> sents[k],
                                       reason |-> legalKeywords[FirstKeyword(sents[k])]])
                 ELSE flagged)

EmptyReport ==
  [ok |-> TRUE, error |-> FALSE, cited_chunks |-> <<>>, unknown_chunk_ids |-> <<>>,
   matched_snippets |-> <<>>, missing_snippet_matches |-> <<>>,
   potential_hallucinations |-> <<>>,
   retrieved_chunk_ids |-> <<>>, cites_retrieved |-> FALSE]

\* step 7 with a slip: flagged sentences do not count
DecideOk_NoHallucinations(unknown, missing, flagged) ==
  ~(Len(unknown) > 0 \/ Len(missing) > 0)

\* step 7: decide ok/fail
DecideOk(unknown, missing, flagged) ==
  ~(Len(unknown) > 0 \/ Len(missing) > 0 \/ Len(flagged) > 0)

\* the report and the lastIndex the call leaves behind
verifyResponseAgainstBundle(bundle, toks, failOnUnknownChunkId, li) ==
  IF ~bundle.hasChunks
  THEN [report |-> [EmptyReport EXCEPT !.ok = FALSE, !.error = TRUE],
        lastIndex |-> li]
  ELSE
    LET ex == extractChunkIds(toks, li)
        cited == ex.ids
        unknown == FilterUnknown(bundle, cited)
    IN IF failOnUnknownChunkId /\ Len(unknown) > 0
       THEN [report |-> [EmptyReport EXCEPT !.ok = FALSE,
                           !.cited_chunks = cited, !.unknown_chunk_ids = unknown],
             lastIndex |-> ex.lastIndex]
       ELSE
         LET missing == MissingSnippetMatches(bundle, toks, cited)
             h == HallucinationLoop(VerifierSentences(toks), 1, ex.lastIndex, <<>>)
             ok == DecideOk(unknown, missing, h.flagged)
         IN [report |-> [EmptyReport EXCEPT !.ok = ok,
                           !.cited_chunks = cited, !.unknown_chunk_ids = unknown,
                           !.matched_snippets = MatchedSnippets(bundle, toks, cited),
                           !.missing_snippet_matches = missing,
                           !.potential_hallucinations = h.flagged],
             lastIndex |-> h.lastIndex]

\* matchedFromRetrieved is non-empty: a retrieved chunk of the bundle matches a
\* quoted snippet of the answer, or its probe is in the answer
MatchedFromRetrieved(bundle, toks, retrieved) ==
  \E r \in 1..Len(retrieved) :
    /\ ChunkMapHas(bundle, retrieved[r])
    /\ LET chunk == ChunkMapGet(bundle, retrieved[r])
       IN \/ FirstMatch(extractQuotedSnippets(toks), chunk.text) > 0
          \/ ProbeInResponse(toks, chunk.text)

\* verifyQAAnswer with a slip: the final decision forgets cites_retrieved
verifyQAAnswer_NoGate(bundle, toks, retrieved, failOnUnknownChunkId, li) ==
  LET base == verifyResponseAgainstBundle(bundle, toks, failOnUnknownChunkId, li)
      b == base.report
      intersects == \E i \in 1..Len(b.cited_chunks) : InSeq(b.cited_chunks[i], retrieved)
      cites == \/ intersects
               \/ /\ Len(retrieved) > 0
                  /\ MatchedFromRetrieved(bundle, toks, retrieved)
  IN [report |-> [b EXCEPT !.retrieved_chunk_ids = retrieved,
                           !.cites_retrieved = cites],
      lastIndex |-> base.lastIndex]

verifyQAAnswer(bundle, toks, retrieved, failOnUnknownChunkId, li) ==
  LET base == verifyResponseAgainstBundle(bundle, toks, failOnUnknownChunkId, li)
      b == base.report
      intersects == \E i \in 1..Len(b.cited_chunks) : InSeq(b.cited_chunks[i], retrieved)
      cites == \/ intersects
               \/ /\ Len(retrieved) > 0
                  /\ MatchedFromRetrieved(bundle, toks, retrieved)
  IN [report |-> [b EXCEPT !.retrieved_chunk_ids = retrieved,
                           !.cites_retrieved = cites,
                           !.ok = b.ok /\ cites],
      lastIndex |-> base.lastIndex]

-----------------------------------------------------------------------------
(* The verifier as a state machine: calls made one after the other in one
   process, all sharing CHUNK_ID_REGEX *)

ChunkA == [chunk_id |-> IdA, text |-> TextA]
ChunkB == [chunk_id |-> IdB, text |-> TextB]

\* a bundle without a chunks array, and bundles of one and two chunks
Bundles ==
  { [hasChunks |-> FALSE, chunks |-> <<>>],
    [hasChunks |-> TRUE, chunks |-> <<ChunkA>>],
    [hasChunks |-> TRUE, chunks |-> <<ChunkA, ChunkB>>] }

RetrievedLists == { <<>>, <<IdA>>, <<IdB>> }

NoCall ==
  [op |-> "none", text |-> <<>>, bundle |-> [hasChunks |-> FALSE, chunks |-> <<>>],
   retrieved |-> <<>>, failOnUnknownChunkId |-> FALSE]

\* bundle is the caller's bundle object as the call has left it
NoResult == [ids |-> <<>>, report |-> EmptyReport, bundle |-> NoCall.bundle]

\* the call with a slip: the snippet of a 'chunk-prefix' match is cut out of the
\* chunk's text in place
BundleAfterVerify_SnippetCutInPlace(bundle, toks) ==
  [bundle EXCEPT !.chunks =
     [i \in DOMAIN bundle.chunks |->
        IF ProbeInResponse(toks, bundle.chunks[i].text)
        THEN [bundle.chunks[i] EXCEPT !.text = ""]
        ELSE bundle.chunks[i]]]

\* The bundle object once verifyResponseAgainstBundle or verifyQAAnswer has
\* returned.  They read bundle.chunks and, through mapChunksById, the chunk_id
\* and the text of the chunks; every assignment and every push is to result,
\* baseResult or a local, and the strings put in the report are copies.
BundleAfterVerify(bundle, toks) == bundle

VIdle ==
  /\ lastIndex = 0
  /\ vpc = "idle"
  /\ vcall = NoCall
  /\ vres = NoResult

VInit ==
  /\ lastIndex = 0
  /\ vpc = "idle"
  /\ vcall = NoCall
  /\ vres = NoResult

\* extractChunkIds(text)
ExtractCitations ==
  /\ vpc = "idle"
  /\ \E text \in Texts :
       LET r == extractChunkIds(text, lastIndex)
       IN /\ vcall' = [NoCall EXCEPT !.op = "extract", !.text = text]
          /\ vres' = [NoResult EXCEPT !.ids = r.ids]
          /\ lastIndex' = r.lastIndex
  /\ vpc' = "done"
  /\ UNCHANGED nonV

\* verifyResponseAgainstBundle(bundle, responseText, opts)
Verify ==
  /\ vpc = "idle"
  /\ \E text \in Texts, bundle \in Bundles, fail \in BOOLEAN :
       LET r == verifyResponseAgainstBundle(bundle, text, fail, lastIndex)
       IN /\ vcall' = [NoCall EXCEPT !.op = "verify", !.text = text, !.bundle = bundle,
                                     !.failOnUnknownChunkId = fail]
          /\ vres' = [NoResult EXCEPT !.report = r.report,
                                      !.bundle = BundleAfterVerify(bundle, text)]
          /\ lastIndex' = r.lastIndex
  /\ vpc' = "done"
  /\ UNCHANGED nonV

\* verifyQAAnswer(bundle, answerText, retrievedChunkIds)
VerifyAgainstRetrieved ==
  /\ vpc = "idle"
  /\ \E text \in Texts, bundle \in Bundles, retrieved \in RetrievedLists :
       LET r == verifyQAAnswer(bundle, text, retrieved, FALSE, lastIndex)
       IN /\ vcall' = [NoCall EXCEPT !.op = "verifyQA", !.text = text, !.bundle = bundle,
                                     !.retrieved = retrieved]
          /\ vres' = [NoResult EXCEPT !.report = r.report,
                                      !.bundle = BundleAfterVerify(bundle, text)]
          /\ lastIndex' = r.lastIndex
  /\ vpc' = "done"
  /\ UNCHANGED nonV

\* the caller takes the result; the regex keeps its lastIndex
VReturn ==
  /\ vpc = "done"
  /\ vpc' = "idle"
  /\ vcall' = NoCall
  /\ vres' = NoResult
  /\ UNCHANGED lastIndex
  /\ UNCHANGED nonV

VNext == ExtractCitations \/ Verify \/ VerifyAgainstRetrieved \/ VReturn

-----------------------------------------------------------------------------
(* Claims about the verifier *)

\* the identifiers that occur in a text, and the text's sentences that hold one
OccursIn(id, toks) == id \in ChunkIds /\ InSeq(id, toks)

HasId(sent) == \E id \in ChunkIds : OccursIn(id, sent)

HasTrigger(sent) == \E k \in 1..Len(legalKeywords) : KeywordIn(legalKeywords[k], sent)

Flagged(sent) ==
  \E i \in 1..Len(vres.report.potential_hallucinations) :
    vres.report.potential_hallucinations[i].sentence = sent

VerifyDone == vpc = "done" /\ vcall.op = "verify" /\ vcall.bundle.hasChunks

\* C1: every verify call, also one that follows earlier calls, reports an
\* identifier of the answer that no chunk of the bundle carries in
\* unknown_chunk_ids, with ok = false.
C1_UnknownIdReported ==
  VerifyDone =>
    \A id \in ChunkIds :
      OccursIn(id, vcall.text) /\ ~ChunkMapHas(vcall.bundle, id)
        => InSeq(id, vres.report.unknown_chunk_ids) /\ ~vres.report.ok

\* C2: with the default options, a sentence of the answer is in
\* potential_hallucinations exactly when it holds no identifier and holds a
\* trigger term; a sentence with an identifier is never flagged.
C2_FlaggedIffUncitedTrigger ==
  VerifyDone /\ ~vcall.failOnUnknownChunkId =>
    LET sents == VerifierSentences(vcall.text)
    IN \A k \in 1..Len(sents) :
         Flagged(sents[k]) <=> (~HasId(sents[k]) /\ HasTrigger(sents[k]))

\* C3: for a bundle with a chunks array, ok is false exactly when
\* unknown_chunk_ids, missing_snippet_matches or potential_hallucinations is
\* non-empty.
C3_OkIff ==
  VerifyDone =>
    (vres.report.ok = FALSE
       <=> \/ vres.report.unknown_chunk_ids # <<>>
           \/ vres.report.missing_snippet_matches # <<>>
           \/ vres.report.potential_hallucinations # <<>>)

\* a verify call that found a citation supported and one that flagged a sentence
C3_Witness ==
  /\ VerifyDone
  /\ vres.report.ok
  /\ vres.report.cited_chunks # <<>>
  /\ vres.report.matched_snippets[1].matched

\* the distinct identifiers of a text in the order of their first occurrence
RECURSIVE FirstOccurrences(_, _)
FirstOccurrences(toks, seen) ==
  IF toks = <<>> THEN <<>>
  ELSE IF Head(toks) \in ChunkIds /\ Head(toks) \notin seen
  THEN <<Head(toks)>> \o FirstOccurrences(Tail(toks), seen \cup {Head(toks)})
  ELSE FirstOccurrences(Tail(toks), seen)

\* C4: extractChunkIds returns every distinct identifier of the text once, in
\* the order of first occurrence.
C4_ExtractDistinctInOrder ==
  vpc = "done" /\ vcall.op = "extract" =>
    vres.ids = FirstOccurrences(vcall.text, {})

VerifyQADone == vpc = "done" /\ vcall.op = "verifyQA"

BaseChecksPass ==
  /\ vcall.bundle.hasChunks
  /\ vres.report.unknown_chunk_ids = <<>>
  /\ vres.report.missing_snippet_matches = <<>>
  /\ vres.report.potential_hallucinations = <<>>

\* no retrieved segment of the bundle has a quoted span or its leading text in
\* the answer
NoOverlapWithRetrieved ==
  \A r \in 1..Len(vcall.retrieved) :
    \A c \in 1..Len(vcall.bundle.chunks) :
      vcall.bundle.chunks[c].chunk_id = vcall.retrieved[r] =>
        /\ ~InSeq(vcall.bundle.chunks[c].text, vcall.text)
        /\ \A q \in Quotes :
             InSeq(q, vcall.text)
               => ~doesSnippetMatchChunk(SnippetOf(q), vcall.bundle.chunks[c].text).matched

CitesOnlyUnretrieved ==
  \A id \in ChunkIds : OccursIn(id, vcall.text) => ~InSeq(id, vcall.retrieved)

\* C5: verifyQAAnswer returns ok = true only if cites_retrieved is true and the
\* base checks pass; an answer that cites no retrieved identifier and has no
\* textual overlap with a retrieved segment gets ok = false.
C5_RetrievedGate ==
  VerifyQADone =>
    /\ vres.report.ok => vres.report.cites_retrieved /\ BaseChecksPass
    /\ CitesOnlyUnretrieved /\ NoOverlapWithRetrieved => ~vres.report.ok

\* the base checks pass on an answer that cites a segment outside the retrieved
\* ones, and the gate turns ok to false
C5_Witness ==
  /\ VerifyQADone
  /\ BaseChecksPass
  /\ vres.report.cited_chunks # <<>>
  /\ CitesOnlyUnretrieved /\ NoOverlapWithRetrieved
  /\ vcall.retrieved # <<>>
  /\ ~vres.report.ok

FirstChar(u) ==
  IF u \in ChunkIds THEN "b"
  ELSE IF u = QA THEN "'"
  ELSE IF u = TextA THEN "t"
  ELSE IF u = KW THEN "o"
  ELSE "."

\* the character that stands before unit i: the space after the unit before it
CharBefore(toks, i) == IF i = 1 THEN "" ELSE " "

\* the characters of the class [A-Z0-9"[] of the look-ahead of splitIntoSentences
\* (the class also holds two typographic quotes)
SentenceOpeners ==
  {"A", "B", "C", "D", "E", "F", "G", "H", "I", "J", "K", "L", "M", "N", "O", "P", "Q",
   "R", "S", "T", "U", "V", "W", "X", "Y", "Z", "0", "1", "2", "3", "4", "5", "6", "7",
   "8", "9", "\"", "["}

\* splitIntoSentences of lib/mcp.js on a text of the verifier: a cut at the
\* white space after a '.' that follows a character other than white space,
\* when a character of SentenceOpeners comes next
RECURSIVE SegmenterSplitFrom(_, _, _)
SegmenterSplitFrom(toks, i, cur) ==
  IF i > Len(toks) THEN (IF cur = <<>> THEN <<>> ELSE <<cur>>)
  ELSE IF /\ toks[i] = DOT
          /\ CharBefore(toks, i) \notin {"", " "}
          /\ i < Len(toks)
          /\ FirstChar(toks[i + 1]) \in SentenceOpeners
  THEN <<Append(cur, toks[i])>> \o SegmenterSplitFrom(toks, i + 1, <<>>)
  ELSE SegmenterSplitFrom(toks, i + 1, Append(cur, toks[i]))

splitIntoSentences(toks) == SegmenterSplitFrom(toks, 1, <<>>)

ReportReturned == vpc = "done" /\ vcall.op \in {"verify", "verifyQA"}

\* C24: the sentences into which verifyResponseAgainstBundle cuts the answer
\* for flagging are the sentences splitIntoSentences gives for the same text.
C24_SameSplitterAsSegmenter ==
  ReportReturned /\ ~vres.report.error =>
    VerifierSentences(vcall.text) = splitIntoSentences(vcall.text)

\* C25: in a report of verifyResponseAgainstBundle an identifier has an entry
\* with matched = false in matched_snippets exactly when it is listed in
\* missing_snippet_matches.
C25_MissingAreTheUnmatched ==
  ReportReturned =>
    \A id \in ChunkIds :
      (\E e \in 1..Len(vres.report.matched_snippets) :
         /\ vres.report.matched_snippets[e].chunk_id = id
         /\ ~vres.report.matched_snippets[e].matched)
      <=> InSeq(id, vres.report.missing_snippet_matches)

\* C27: the result of extractChunkIds, verifyResponseAgainstBundle and
\* verifyQAAnswer is the result the same arguments give in a process that has
\* made no call before: it does not depend on the calls made earlier.
C27_ResultFromArgumentsOnly ==
  vpc = "done" =>
    /\ vcall.op = "extract" => vres.ids = extractChunkIds(vcall.text, 0).ids
    /\ vcall.op = "verify" =>
         vres.report = verifyResponseAgainstBundle(vcall.bundle, vcall.text,
                                                   vcall.failOnUnknownChunkId, 0).report
    /\ vcall.op = "verifyQA" =>
         vres.report = verifyQAAnswer(vcall.bundle, vcall.text, vcall.retrieved,
                                      FALSE, 0).report

-----------------------------------------------------------------------------
(* mcp.js: chunkText *)

DEFAULT_CHUNK_TOKENS == 500
DEFAULT_CHUNK_OVERLAP == 50

\* an option the caller did not pass
Undefined == -1

\* options.x || DEFAULT: a missing option and 0 both give the default
OrDefault(x, d) == IF x = Undefined \/ x = 0 THEN d ELSE x

\* The sentences splitIntoSentences returns are drawn from three kinds; two
\* sentences of one kind are the same string.  SentLen is the length of the string in characters.
SentKinds == {"s", "m", "l"}

SentLen(k) == IF k = "s" THEN 40 ELSE IF k = "m" THEN 200 ELSE 400

\* In the document a sentence stands as splitIntoSentences returns it, or, for
\* "s2", as the sentence "s" with two spaces where it has one: the splitter
\* turns every run of white space into one space (line 42), so the sentence it
\* returns for "s2" is "s", a string the document does not hold at that place.
RawKinds == SentKinds \cup {"s2"}

Normalized(k) == IF k = "s2" THEN "s" ELSE k

RawLen(k) == IF k = "s2" THEN SentLen("s") + 1 ELSE SentLen(k)

\* estimateTokens of a string of n characters
estimateTokens(n) == IF n = 0 THEN 0 ELSE Max(1, (n + 3) \div 4)

\* the length of sentences joined by ' '
RECURSIVE JoinedLen(_)
JoinedLen(ss) ==
  IF ss = <<>> THEN 0
  ELSE SentLen(Head(ss)) + (IF Len(ss) > 1 THEN 1 + JoinedLen(Tail(ss)) ELSE 0)

\* the length in the document of sentences that stand one space apart
RECURSIVE RawJoinedLen(_)
RawJoinedLen(ss) ==
  IF ss = <<>> THEN 0
  ELSE RawLen(Head(ss)) + (IF Len(ss) > 1 THEN 1 + RawJoinedLen(Tail(ss)) ELSE 0)

\* The document text: the sentences of a paragraph stand one space apart, the
\* paragraphs a blank line ("\n\n") apart.
RECURSIVE ParaOffset(_, _)
ParaOffset(doc, p) ==
  IF p = 1 THEN 0 ELSE ParaOffset(doc, p - 1) + RawJoinedLen(doc[p - 1]) + 2

SentOffset(doc, p, i) ==
  ParaOffset(doc, p) + (IF i = 1 THEN 0 ELSE RawJoinedLen(SubSeq(doc[p], 1, i - 1)) + 1)

DocLen(doc) ==
  IF doc = <<>> THEN 0 ELSE ParaOffset(doc, Len(doc)) + RawJoinedLen(doc[Len(doc)])

SetMin(S) == CHOOSE o \in S : \A x \in S : o <= x

\* text.indexOf(sent, from): the first place at or after from where a sentence
\* of that kind stands, -1 when there is none
IndexOf(doc, kind, from) ==
  LET occ == {SentOffset(doc, pi[1], pi[2]) :
                pi \in {q \in (1..Len(doc)) \X (1..MaxSentences) :
                          /\ q[2] <= Len(doc[q[1]])
                          /\ doc[q[1]][q[2]] = kind
                          /\ SentOffset(doc, q[1], q[2]) >= from}}
  IN IF occ = {} THEN -1 ELSE SetMin(occ)

\* lines 136-144: the place of the sentence in the document
AbsoluteSentenceIndex(doc, kind, from) ==
  IF IndexOf(doc, kind, from) # -1 THEN IndexOf(doc, kind, from)
  ELSE IF IndexOf(doc, kind, 0) # -1 THEN IndexOf(doc, kind, 0)
  ELSE from

\* the for loop of flushChunk: how many sentences, counted from the end, are
\* kept for the next chunk, and their tokens
RECURSIVE KeepLoop(_, _, _, _, _)
KeepLoop(ss, i, kept, keepTokens, overlapTokens) ==
  IF i = 0 THEN [kept |-> kept, keepTokens |-> keepTokens]
  ELSE LET t == estimateTokens(SentLen(ss[i]))
       IN IF keepTokens + t > overlapTokens /\ kept > 0
          THEN [kept |-> kept, keepTokens |-> keepTokens]
          ELSE KeepLoop(ss, i - 1, kept + 1, keepTokens + t, overlapTokens)

\* chunkText.indexOf(keepText): the offset in the chunk's text of the first run
\* of sentences equal to the kept ones
KeepIndexInChunk(ss, keep) ==
  LET js == {j \in 1..(Len(ss) - Len(keep) + 1) : SubSeq(ss, j, j + Len(keep) - 1) = keep}
      j0 == SetMin(js)
  IN IF js = {} THEN -1
     ELSE IF j0 = 1 THEN 0 ELSE JoinedLen(SubSeq(ss, 1, j0 - 1)) + 1

LastOf(s) == s[Len(s)]

EffectiveTarget == OrDefault(copts.targetTokens, DEFAULT_CHUNK_TOKENS)
EffectiveOverlap == OrDefault(copts.overlapTokens, DEFAULT_CHUNK_OVERLAP)

\* the threshold of the merge loop, line 177
MergeThreshold == Max(50, DEFAULT_CHUNK_TOKENS \div 5)

\* the chunk flushChunk pushes; para, sents and closed are ghosts: the
\* paragraph, the places of the chunk's sentences in it, and what closed it
NewChunk(ss, pos, start, why) ==
  [text |-> ss, start_char |-> start, end_char |-> start + JoinedLen(ss),
   para |-> cp, sents |-> pos, closed |-> why]

\* one turn of the loop over the sentences (lines 129-163), flushChunk(true)
\* included
SentenceStep ==
  /\ cpc = "walk"
  /\ ci <= Len(cdoc[cp])
  /\ LET sent == Normalized(cdoc[cp][ci])
         sentTokens == estimateTokens(SentLen(sent))
         abs == AbsoluteSentenceIndex(cdoc, sent, globalCharIndex)
         start == IF currentChunkSentences = <<>> THEN abs ELSE currentChunkStart
         ss == Append(currentChunkSentences, sent)
         pos == Append(currentChunkPos, ci)
         tokens == currentChunkTokens + sentTokens
     IN IF tokens >= EffectiveTarget
        THEN LET c == NewChunk(ss, pos, start, "target")
                 k == KeepLoop(ss, Len(ss), 0, 0, EffectiveOverlap)
                 keep == SubSeq(ss, Len(ss) - k.kept + 1, Len(ss))
                 idx == KeepIndexInChunk(ss, keep)
             IN /\ chunks' = Append(chunks, c)
                /\ IF EffectiveOverlap > 0
                   THEN /\ currentChunkSentences' = keep
                        /\ currentChunkPos' = SubSeq(pos, Len(ss) - k.kept + 1, Len(ss))
                        /\ currentChunkTokens' = k.keepTokens
                        /\ currentChunkStart' =
                             IF idx >= 0 THEN start + idx ELSE c.end_char
                   ELSE /\ currentChunkSentences' = <<>>
                        /\ currentChunkPos' = <<>>
                        /\ currentChunkTokens' = 0
                        /\ currentChunkStart' = -1
                /\ globalCharIndex' = c.end_char
        ELSE /\ currentChunkSentences' = ss
             /\ currentChunkPos' = pos
             /\ currentChunkTokens' = tokens
             /\ currentChunkStart' = start
             /\ globalCharIndex' = abs + SentLen(sent)
             /\ UNCHANGED chunks
  /\ ci' = ci + 1
  /\ UNCHANGED <<cdoc, copts, cpc, cp, merged, mi>>
  /\ UNCHANGED nonC

\* the end of a paragraph (lines 165-169): flushChunk(false), then the next
\* paragraph with fresh locals, or the merge loop after the last one
ParagraphEnd ==
  /\ cpc = "walk"
  /\ ci > Len(cdoc[cp])
  /\ IF currentChunkSentences # <<>>
     THEN LET c == NewChunk(currentChunkSentences, currentChunkPos,
                            currentChunkStart, "end")
          IN /\ chunks' = Append(chunks, c)
             /\ globalCharIndex' = c.end_char
     ELSE UNCHANGED <<chunks, globalCharIndex>>
  /\ currentChunkSentences' = <<>>
  /\ currentChunkPos' = <<>>
  /\ currentChunkTokens' = 0
  /\ currentChunkStart' = -1
  /\ IF cp < Len(cdoc)
     THEN cp' = cp + 1 /\ ci' = 1 /\ UNCHANGED cpc
     ELSE cpc' = "merge" /\ UNCHANGED <<cp, ci>>
  /\ UNCHANGED <<cdoc, copts, merged, mi>>
  /\ UNCHANGED nonC

\* one turn of the merge loop (lines 174-184); parts is a ghost: the chunks a
\* merged chunk is made of
MergeStep ==
  /\ cpc = "merge"
  /\ mi <= Len(chunks)
  /\ LET c == chunks[mi]
         t == estimateTokens(JoinedLen(c.text))
     IN IF t < MergeThreshold /\ Len(merged) > 0
        THEN merged' = [merged EXCEPT
                          ![Len(merged)].text = @ \o c.text,
                          ![Len(merged)].end_char = c.end_char,
                          ![Len(merged)].parts = Append(@, mi)]
        ELSE merged' = Append(merged,
                         [text |-> c.text, start_char |-> c.start_char,
                          end_char |-> c.end_char, parts |-> <<mi>>])
  /\ mi' = mi + 1
  /\ UNCHANGED <<cdoc, copts, cpc, cp, ci, currentChunkSentences, currentChunkPos,
                 currentChunkStart, currentChunkTokens, globalCharIndex, chunks>>
  /\ UNCHANGED nonC

\* return merged
ChunkReturn ==
  /\ cpc = "merge"
  /\ mi > Len(chunks)
  /\ cpc' = "done"
  /\ UNCHANGED <<cdoc, copts, cp, ci, currentChunkSentences, currentChunkPos,
                 currentChunkStart, currentChunkTokens, globalCharIndex, chunks,
                 merged, mi>>
  /\ UNCHANGED nonC

\* the documents: up to MaxSentences sentences in all, cut into paragraphs
RECURSIVE DocsOf(_)
DocsOf(n) ==
  IF n = 0 THEN {<<>>}
  ELSE UNION { { <<para>> \o rest : rest \in DocsOf(n - Len(para)) } :
               para \in {q \in SeqsUpTo(RawKinds, n) : Len(q) >= 1} }
       \cup {<<>>}

Docs == DocsOf(MaxSentences)

TargetOptions == {Undefined, 100, 1000}
OverlapOptions == {Undefined, 0, 20}

CIdle ==
  /\ cdoc = <<>>
  /\ copts = [targetTokens |-> Undefined, overlapTokens |-> Undefined]
  /\ cpc = "done"
  /\ cp = 1
  /\ ci = 1
  /\ currentChunkSentences = <<>>
  /\ currentChunkPos = <<>>
  /\ currentChunkStart = -1
  /\ currentChunkTokens = 0
  /\ globalCharIndex = 0
  /\ chunks = <<>>
  /\ merged = <<>>
  /\ mi = 1

\* chunkText(text, options) is entered; an empty text returns [] at once
CInit ==
  /\ cdoc \in Docs
  /\ copts \in [targetTokens : TargetOptions, overlapTokens : OverlapOptions]
  /\ cpc = IF cdoc = <<>> THEN "done" ELSE "walk"
  /\ cp = 1
  /\ ci = 1
  /\ currentChunkSentences = <<>>
  /\ currentChunkPos = <<>>
  /\ currentChunkStart = -1
  /\ currentChunkTokens = 0
  /\ globalCharIndex = 0
  /\ chunks = <<>>
  /\ merged = <<>>
  /\ mi = 1

CNext == SentenceStep \/ ParagraphEnd \/ MergeStep \/ ChunkReturn

-----------------------------------------------------------------------------
(* Claims about chunkText *)

\* C6: with overlapTokens = 0 a chunk that follows a chunk closed on reaching
\* the target starts with the first sentence not yet placed (the sentence after
\* the last one of the chunk before it, or the first of the next paragraph)
\* and so shares no sentence with it.
C6_ZeroOverlapCarriesNothing ==
  copts.overlapTokens = 0 =>
    \A i \in 2..Len(chunks) :
      chunks[i - 1].closed = "target" =>
        IF chunks[i].para = chunks[i - 1].para
        THEN chunks[i].sents[1] = LastOf(chunks[i - 1].sents) + 1
        ELSE chunks[i].sents[1] = 1

\* the chunk of `chunks` at place i was appended to the chunk before it
MergedIntoPredecessor(i) ==
  \E m \in 1..Len(merged) :
    \E j \in 2..Len(merged[m].parts) : merged[m].parts[j] = i

\* C7: in the result, a chunk other than the first was merged into the one
\* before it exactly when its token estimate is below
\* max(50, targetTokens / 5) for the caller's targetTokens; the first chunk is
\* never merged; a merged chunk ends where the last chunk merged into it ends.
C7_MergeBelowCallersThreshold ==
  cpc = "done" =>
    /\ \A i \in 2..Len(chunks) :
         MergedIntoPredecessor(i)
           <=> estimateTokens(JoinedLen(chunks[i].text)) < Max(50, EffectiveTarget \div 5)
    /\ ~MergedIntoPredecessor(1)
    /\ \A m \in 1..Len(merged) :
         merged[m].end_char = chunks[LastOf(merged[m].parts)].end_char

\* C16: every chunk that chunkText returns has
\* 0 <= start_char <= end_char <= length of the document.
C16_OffsetsWithinDocument ==
  cpc = "done" =>
    \A m \in 1..Len(merged) :
      /\ 0 <= merged[m].start_char
      /\ merged[m].start_char <= merged[m].end_char
      /\ merged[m].end_char <= DocLen(cdoc)

\* the sentences of the document in reading order, each with its place
RECURSIVE FlatSentences(_, _, _)
FlatSentences(doc, p, i) ==
  IF p > Len(doc) THEN <<>>
  ELSE IF i > Len(doc[p]) THEN FlatSentences(doc, p + 1, 1)
  ELSE <<[kind |-> Normalized(doc[p][i]), from |-> SentOffset(doc, p, i),
          to |-> SentOffset(doc, p, i) + RawLen(doc[p][i])]>>
       \o FlatSentences(doc, p, i + 1)

\* doc[from : to] holds the sentences of text one after the other, white space
\* disregarded.  No sentence of the model is part of another, so they stand
\* where sentences of the document stand.
SliceContains(doc, from, to, text) ==
  LET flat == FlatSentences(doc, 1, 1)
  IN \E k \in 1..(Len(flat) - Len(text) + 1) :
       /\ flat[k].from >= from
       /\ flat[k + Len(text) - 1].to <= to
       /\ \A j \in 1..Len(text) : flat[k + j - 1].kind = text[j]

\* C17: for every chunk that chunkText returns, the slice of the document
\* between its offsets holds its text, the joining spaces apart.
C17_SliceHoldsText ==
  cpc = "done" =>
    \A m \in 1..Len(merged) :
      SliceContains(cdoc, merged[m].start_char, merged[m].end_char, merged[m].text)

\* the sum of the token estimates of the last k sentences of ss
RECURSIVE SuffixTokens(_, _)
SuffixTokens(ss, k) ==
  IF k = 0 THEN 0
  ELSE estimateTokens(SentLen(ss[Len(ss) - k + 1])) + SuffixTokens(ss, k - 1)

\* the length of the longest suffix of ss whose tokens do not exceed the
\* budget, 1 when the last sentence alone exceeds it
LongestSuffixWithin(ss, budget) ==
  LET fits == {k \in 1..Len(ss) : SuffixTokens(ss, k) <= budget}
  IN IF fits = {} THEN 1 ELSE CHOOSE k \in fits : \A j \in fits : j <= k

\* C21: when a chunk is closed on reaching the target and the caller has not
\* set the overlap to 0, the chunk after it begins with the longest suffix of
\* the closed chunk's sentences whose token estimates sum to no more than the
\* overlap (the last sentence alone when it exceeds the overlap by itself),
\* and its start_char is the offset in the document at which that suffix begins.
C21_OverlapSuffixAndStart ==
  copts.overlapTokens # 0 =>
    \A i \in 2..Len(chunks) :
      chunks[i - 1].closed = "target" =>
        LET prev == chunks[i - 1]
            k == LongestSuffixWithin(prev.text, EffectiveOverlap)
            from == Len(prev.sents) - k + 1
        IN /\ chunks[i].para = prev.para
           /\ Len(chunks[i].sents) >= k
           /\ SubSeq(chunks[i].sents, 1, k) = SubSeq(prev.sents, from, Len(prev.sents))
           /\ chunks[i].start_char = SentOffset(cdoc, prev.para, prev.sents[from])

\* C22: the search cursor of chunkText never decreases, and every sentence is
\* placed at or after the cursor: where it is found from the cursor on, or at
\* the cursor when it is not found.
C22_CursorMonotone ==
  [][/\ globalCharIndex' >= globalCharIndex
     /\ (cpc = "walk" /\ ci <= Len(cdoc[cp])) =>
          LET sent == Normalized(cdoc[cp][ci])
              abs == AbsoluteSentenceIndex(cdoc, sent, globalCharIndex)
          IN /\ abs >= globalCharIndex
             /\ IndexOf(cdoc, sent, globalCharIndex) = -1 => abs = globalCharIndex]_cvars

\* the token estimates of the sentences of paragraph p, summed
ParaTokens(doc, p) ==
  SuffixTokens([i \in 1..Len(doc[p]) |-> Normalized(doc[p][i])], Len(doc[p]))

\* C23: a paragraph whose sentences' token estimates sum to less than the
\* target gives exactly one chunk of the result: one chunk is made of it and
\* that chunk is returned as a chunk of its own.
C23_ShortParagraphOneSegment ==
  cpc = "done" =>
    \A p \in 1..Len(cdoc) :
      ParaTokens(cdoc, p) < EffectiveTarget =>
        /\ Cardinality({i \in 1..Len(chunks) : chunks[i].para = p}) = 1
        /\ \E m \in 1..Len(merged) :
             /\ Len(merged[m].parts) = 1
             /\ chunks[merged[m].parts[1]].para = p

\* C28: a chunk that flushChunk pushes holds a sentence that the chunk pushed
\* before it for the same paragraph does not hold; so no chunk is made of
\* carried-over sentences only, and none follows a chunk that the last sentence
\* of the paragraph closed.
C28_EveryChunkHasNewSentence ==
  \A i \in 2..Len(chunks) :
    chunks[i].para = chunks[i - 1].para =>
      \E x \in 1..Len(chunks[i].sents) :
        \A y \in 1..Len(chunks[i - 1].sents) : chunks[i].sents[x] # chunks[i - 1].sents[y]

-----------------------------------------------------------------------------
(* routes/ask.js: the lazy embedding cache of POST /api/ask *)

BATCH == 16

\* the requests in flight at one time, and the chunks of the stored bundle
NumReqs == 2
NumChunks == 17

Reqs == 1..NumReqs

\* the calls of ensureBundleEmbeddings on one bundle object
MaxEnsureCalls == 2

NoEnsureCall == [n |-> 0, before |-> <<>>, requests |-> 0]

\* The bundle file of one bundle_id: Absent, or the embedding of each chunk.
\* The embeddings are deterministic, so a chunk has one vector whichever
\* request obtains it: 0 is "no embedding", Fresh the vector a request of this
\* run obtained, Cached one that an earlier run stored.
Absent == <<"absent">>
Fresh == 1
Cached == 2

\* every chunk from `from` on, with or without an embedding
RECURSIVE AllChunksFrom(_, _)
AllChunksFrom(bundle, from) ==
  IF from > Len(bundle) THEN <<>> ELSE <<from>> \o AllChunksFrom(bundle, from + 1)

\* chunksWithoutEmb = bundle.chunks.filter(c => !c.embedding)
RECURSIVE chunksWithoutEmb(_, _)
chunksWithoutEmb(bundle, from) ==
  IF from > Len(bundle) THEN <<>>
  ELSE (IF bundle[from] = 0 THEN <<from>> ELSE <<>>) \o chunksWithoutEmb(bundle, from + 1)

\* batch = chunksWithoutEmb.slice(i, i + BATCH)
BatchAt(without, i) == SubSeq(without, i + 1, Min(i + BATCH, Len(without)))

\* lines 127-132: the embeddings of the response are attached to the batch;
\* miss is the chunk whose item of the response carries no embedding (0: none;
\* the model lets it be the last item of the batch only)
AttachBatch(bundle, batch, r, miss) ==
  [c \in 1..Len(bundle) |->
     IF InSeq(c, batch) THEN (IF c = miss THEN 0 ELSE Fresh) ELSE bundle[c]]

\* the handler up to the first await: readBundle, then ensureBundleEmbeddings up
\* to its first callOpenAIEmbeddings
AskStart(r) ==
  /\ epc[r] = "idle"
  /\ IF efile = Absent
     THEN /\ epc' = [epc EXCEPT ![r] = "notfound"]
          /\ UNCHANGED <<ebundle, ewithout, ei, eattempts, ecall>>
     ELSE LET without == chunksWithoutEmb(efile, 1)
          IN /\ ebundle' = [ebundle EXCEPT ![r] = efile]
             /\ ewithout' = [ewithout EXCEPT ![r] = without]
             /\ ei' = [ei EXCEPT ![r] = 0]
             /\ ecall' = [ecall EXCEPT ![r] =
                           [n |-> 1, before |-> efile,
                            requests |-> IF without = <<>> THEN 0 ELSE 1]]
             /\ IF without = <<>>
                THEN /\ epc' = [epc EXCEPT ![r] = "done"]
                     /\ UNCHANGED eattempts
                ELSE /\ epc' = [epc EXCEPT ![r] = "embedding"]
                     /\ eattempts' = [eattempts EXCEPT ![r] = 1]
  /\ UNCHANGED <<efile, efailed, edeleted>>
  /\ UNCHANGED nonE

\* saveBundle after every batch
FileAfterBatch_SavedEachTime(file, bundle, last) == bundle

\* the bundle file once a batch has its embeddings: saveBundle is called after
\* the loop (line 136), so after the last batch only
FileAfterBatch(file, bundle, last) == IF last THEN bundle ELSE file

\* callOpenAIEmbeddings resolves: the batch gets its embeddings, then the next
\* batch is requested, or after the last one saveBundle writes the file
EmbedOk(r) ==
  /\ epc[r] = "embedding"
  /\ LET batch == BatchAt(ewithout[r], ei[r])
     IN \E miss \in {0, batch[Len(batch)]} :
          LET b == AttachBatch(ebundle[r], batch, r, miss)
          IN /\ ebundle' = [ebundle EXCEPT ![r] = b]
             /\ ei' = [ei EXCEPT ![r] = @ + BATCH]
             /\ efile' = FileAfterBatch(efile, b, ei[r] + BATCH >= Len(ewithout[r]))
             /\ IF ei[r] + BATCH < Len(ewithout[r])
                THEN /\ eattempts' = [eattempts EXCEPT ![r] = 1]
                     /\ ecall' = [ecall EXCEPT ![r].requests = @ + 1]
                     /\ UNCHANGED epc
                ELSE /\ epc' = [epc EXCEPT ![r] = "done"]
                     /\ UNCHANGED <<eattempts, ecall>>
  /\ UNCHANGED <<ewithout, efailed, edeleted>>
  /\ UNCHANGED nonE

\* callOpenAIEmbeddings throws (the request failed with !res.ok): nothing
\* catches it before the handler's catch, which answers 500
EmbedFail(r) ==
  /\ epc[r] = "embedding"
  /\ efailed' = [efailed EXCEPT ![r] = @ + 1]
  /\ epc' = [epc EXCEPT ![r] = "error"]
  /\ UNCHANGED <<efile, ebundle, ewithout, ei, eattempts, ecall, edeleted>>
  /\ UNCHANGED nonE

\* the response is sent; the request's bundle object is dropped
AskEnd(r) ==
  /\ epc[r] \in {"done", "error", "notfound"}
  /\ epc' = [epc EXCEPT ![r] = "idle"]
  /\ ebundle' = [ebundle EXCEPT ![r] = <<>>]
  /\ ewithout' = [ewithout EXCEPT ![r] = <<>>]
  /\ ei' = [ei EXCEPT ![r] = 0]
  /\ eattempts' = [eattempts EXCEPT ![r] = 0]
  /\ efailed' = [efailed EXCEPT ![r] = 0]
  /\ ecall' = [ecall EXCEPT ![r] = NoEnsureCall]
  /\ UNCHANGED <<efile, edeleted>>
  /\ UNCHANGED nonE

\* ensureBundleEmbeddings(bundle) is called again on the bundle object of a
\* call that returned: lines 118-125 up to the first await
EnsureAgain(r) ==
  /\ epc[r] = "done"
  /\ ecall[r].n < MaxEnsureCalls
  /\ LET without == chunksWithoutEmb(ebundle[r], 1)
     IN /\ ewithout' = [ewithout EXCEPT ![r] = without]
        /\ ei' = [ei EXCEPT ![r] = 0]
        /\ ecall' = [ecall EXCEPT ![r] =
                      [n |-> @.n + 1, before |-> ebundle[r],
                       requests |-> IF without = <<>> THEN 0 ELSE 1]]
        /\ IF without = <<>>
           THEN UNCHANGED <<epc, eattempts>>
           ELSE /\ epc' = [epc EXCEPT ![r] = "embedding"]
                /\ eattempts' = [eattempts EXCEPT ![r] = 1]
  /\ UNCHANGED <<efile, ebundle, efailed, edeleted>>
  /\ UNCHANGED nonE

\* deleteBundle(bundleId) of lib/mcp.js removes the file and returns true; when
\* there is no file it returns false and changes nothing.  edeleted is a
\* ghost: a call has returned true.
DeleteBundle ==
  /\ efile # Absent
  /\ ~edeleted
  /\ efile' = Absent
  /\ edeleted' = TRUE
  /\ UNCHANGED <<epc, ebundle, ewithout, ei, eattempts, efailed, ecall>>
  /\ UNCHANGED nonE

\* the stored bundle: nothing embedded yet, the first batch embedded, or all
StoredBundles ==
  { [c \in 1..NumChunks |-> 0],
    [c \in 1..NumChunks |-> IF c <= BATCH THEN Cached ELSE 0],
    [c \in 1..NumChunks |-> Cached] }

EIdle ==
  /\ efile = Absent
  /\ epc = [r \in Reqs |-> "idle"]
  /\ ebundle = [r \in Reqs |-> <<>>]
  /\ ewithout = [r \in Reqs |-> <<>>]
  /\ ei = [r \in Reqs |-> 0]
  /\ eattempts = [r \in Reqs |-> 0]
  /\ efailed = [r \in Reqs |-> 0]
  /\ ecall = [r \in Reqs |-> NoEnsureCall]
  /\ edeleted = FALSE

EInit ==
  /\ efile \in StoredBundles
  /\ epc = [r \in Reqs |-> "idle"]
  /\ ebundle = [r \in Reqs |-> <<>>]
  /\ ewithout = [r \in Reqs |-> <<>>]
  /\ ei = [r \in Reqs |-> 0]
  /\ eattempts = [r \in Reqs |-> 0]
  /\ efailed = [r \in Reqs |-> 0]
  /\ ecall = [r \in Reqs |-> NoEnsureCall]
  /\ edeleted = FALSE

ENext ==
  \E r \in Reqs :
    AskStart(r) \/ EmbedOk(r) \/ EmbedFail(r) \/ AskEnd(r) \/ EnsureAgain(r)

\* the requests, and a caller of deleteBundle beside them
DNext ==
  \/ \E r \in Reqs :
       AskStart(r) \/ EmbedOk(r) \/ EmbedFail(r) \/ AskEnd(r) \/ EnsureAgain(r)
  \/ DeleteBundle

-----------------------------------------------------------------------------
(* Claims about the embedding cache *)

\* C8: a request of ensureBundleEmbeddings ends with the error of a failed
\* embed request only after that request was attempted 3 times (the attempts
\* of the backoff 500 ms, 1000 ms are exhausted).
C8_ErrorOnlyAfterThreeAttempts ==
  \A r \in Reqs : epc[r] = "error" => eattempts[r] = 3

Unembedded(bundle) == {c \in 1..Len(bundle) : bundle[c] = 0}

\* C9: when the embed capability failed for one chunk, ensureBundleEmbeddings
\* does not abort, and every other chunk of the bundle has its embedding when
\* the call is over: at most the failed chunk is left with none.
C9_OneFailureDoesNotAbort ==
  \A r \in Reqs :
    efailed[r] > 0 =>
      /\ epc[r] # "error"
      /\ epc[r] = "done" => Cardinality(Unembedded(ebundle[r])) <= 1

\* C14: a call of ensureBundleEmbeddings on a bundle object whose chunks all
\* have an embedding issues no embed request and leaves every embedding as it
\* was; and whenever a call waits for an embed request, the chunks of that
\* request had no embedding when the call began.
C14_EnsureIdempotent ==
  \A r \in Reqs :
    /\ ecall[r].n > 0 /\ Unembedded(ecall[r].before) = {} =>
         /\ ecall[r].requests = 0
         /\ epc[r] # "embedding"
         /\ ebundle[r] = ecall[r].before
    /\ epc[r] = "embedding" =>
         \A j \in 1..Len(BatchAt(ewithout[r], ei[r])) :
           ecall[r].before[BatchAt(ewithout[r], ei[r])[j]] = 0

\* a second call returned on a bundle object that the first call had filled
C14_Witness ==
  \E r \in Reqs :
    /\ epc[r] = "done"
    /\ ecall[r].n = 2
    /\ Unembedded(ecall[r].before) = {}
    /\ \E c \in 1..Len(ebundle[r]) : ebundle[r][c] = Fresh

\* C15: at most one request is between reading the bundle file and writing it
\* back.
C15_SingleWriter ==
  \A r1, r2 \in Reqs : epc[r1] = "embedding" /\ epc[r2] = "embedding" => r1 = r2

\* C29: once deleteBundle has returned true the bundle file stays absent, so
\* loadBundle returns null from then on; a request that read the bundle before
\* and is still embedding does not write the file back.
C29_DeletedStaysAbsent == edeleted => efile = Absent

\* C30: the bundle file is written only in the step in which a call of
\* ensureBundleEmbeddings gets the embeddings of its last batch and returns; so
\* a call that ends with the error of an embed request has not written the
\* file, whatever batches succeeded before, and the step that fails leaves the
\* file as it is.
C30_ErrorLeavesFileAsItWas ==
  [][efile' # efile =>
       \E r \in Reqs :
         /\ epc[r] = "embedding"
         /\ epc'[r] = "done"
         /\ ei[r] + BATCH >= Len(ewithout[r])
         /\ efile' = ebundle'[r]]_evars

\* the embed request of the second batch failed after the first batch got its
\* embeddings, which the file does not hold
C30_Witness ==
  \E r \in Reqs :
    /\ epc[r] = "error"
    /\ ei[r] > 0
    /\ \E c \in 1..Len(ebundle[r]) : ebundle[r][c] = Fresh /\ efile[c] = 0

-----------------------------------------------------------------------------
(* routes/ask.js: retrieveTopK *)

TOP_K_DEFAULT == 4

\* the chunks of a bundle handed to retrieveTopK
MaxTopKChunks == 3

\* Embedding vectors.  With components in -1..1 two scores against one query
\* are equal as real numbers only when their dot and norms are equal, so the
\* exact comparison below orders them as the floating point comparison does.
Vectors == {<<1, 0>>, <<-1, 0>>, <<1, 1>>, <<0, 0>>, <<1, 0, 1>>, <<1, 1, 1>>}

\* the embedding field of a chunk: missing (undefined or null), or a vector
NoEmbedding == [has |-> FALSE, v |-> <<>>]
Embeddings == {NoEmbedding} \cup {[has |-> TRUE, v |-> v] : v \in Vectors}

\* a[i] || 0
At(a, i) == IF i <= Len(a) THEN a[i] ELSE 0

RECURSIVE SumTo(_, _, _, _)
SumTo(a, b, n, what) ==
  IF n = 0 THEN 0
  ELSE SumTo(a, b, n - 1, what)
       + (IF what = "dot" THEN At(a, n) * At(b, n)
          ELSE IF what = "na" THEN At(a, n) * At(a, n)
          ELSE At(b, n) * At(b, n))

\* A score is kept exact: it stands for dot / (sqrt(na) * sqrt(nb)), na, nb > 0
ScoreZero == [dot |-> 0, na |-> 1, nb |-> 1]

\* cosineSimilarity(a, b): the loop runs over the indices of a
cosineSimilarity(a, b) ==
  LET dot == SumTo(a, b, Len(a), "dot")
      na == SumTo(a, b, Len(a), "na")
      nb == SumTo(a, b, Len(a), "nb")
  IN IF na = 0 \/ nb = 0 THEN ScoreZero ELSE [dot |-> dot, na |-> na, nb |-> nb]

\* x < y for the numbers two scores stand for
ScoreLess(x, y) ==
  LET dx == x.na * x.nb
      dy == y.na * y.nb
  IN IF x.dot < 0 /\ y.dot >= 0 THEN TRUE
     ELSE IF x.dot >= 0 /\ y.dot <= 0 THEN FALSE
     ELSE IF x.dot >= 0 THEN x.dot * x.dot * dy < y.dot * y.dot * dx
     ELSE x.dot * x.dot * dy > y.dot * y.dot * dx

\* The number returned is the double dot / (Math.sqrt(na) * Math.sqrt(nb)).
\* SqrtProductError is the sign of Math.sqrt(na) * Math.sqrt(nb) - sqrt(na * nb)
\* in IEEE 754 doubles where na * nb is a square, for the norms the vectors of
\* the model have: sqrt(2) * sqrt(2) is 2.0000000000000004 and
\* sqrt(3) * sqrt(3) is 2.9999999999999996.
SqrtProductError(na, nb) ==
  IF na = 2 /\ nb = 2 THEN 1 ELSE IF na = 3 /\ nb = 3 THEN -1 ELSE 0

\* the magnitude of the returned number against 1: -1 below, 0 equal, 1 above
ScoreMagnitude(s) ==
  IF s.dot * s.dot < s.na * s.nb THEN -1
  ELSE IF s.dot * s.dot > s.na * s.nb THEN 1
  ELSE 0 - SqrtProductError(s.na, s.nb)

\* a score of 1 for a chunk with no embedding
ChunkScore_MissingAsOne(qEmb, c) ==
  IF c.embedding.has THEN cosineSimilarity(qEmb, c.embedding.v)
  ELSE [dot |-> 1, na |-> 1, nb |-> 1]

\* c.embedding ? cosineSimilarity(qEmb, c.embedding) : 0
ChunkScore(qEmb, c) ==
  IF c.embedding.has THEN cosineSimilarity(qEmb, c.embedding.v) ELSE ScoreZero

\* scored.sort((a, b) => b.score - a.score): a stable sort, larger scores first
RECURSIVE InsertByScore(_, _)
InsertByScore(sorted, x) ==
  IF sorted = <<>> THEN <<x>>
  ELSE IF ScoreLess(Head(sorted).score, x.score) THEN <<x>> \o sorted
  ELSE <<Head(sorted)>> \o InsertByScore(Tail(sorted), x)

RECURSIVE SortByScore(_, _)
SortByScore(scored, n) ==
  IF n = 0 THEN <<>> ELSE InsertByScore(SortByScore(scored, n - 1), scored[n])

\* s.slice(0, k)
Slice0(s, k) ==
  IF k >= 0 THEN SubSeq(s, 1, Min(k, Len(s))) ELSE SubSeq(s, 1, Max(Len(s) + k, 0))

\* line 216: top_k && Number.isInteger(top_k) ? top_k : TOP_K_DEFAULT
EffectiveK(top_k) == IF top_k.given /\ top_k.v # 0 THEN top_k.v ELSE TOP_K_DEFAULT

TopKInputs == {[given |-> FALSE, v |-> 0]}
                \cup {[given |-> TRUE, v |-> n] : n \in {-1, 0, 1, 2}}

\* the response of the embed capability for the chunks with no embedding: an
\* item per chunk, with or without an embedding
EnsuredBundles(bundle) ==
  LET missing == {c \in 1..Len(bundle) : ~bundle[c].embedding.has}
  IN { [c \in 1..Len(bundle) |->
          IF c \in missing THEN [bundle[c] EXCEPT !.embedding = e[c]] ELSE bundle[c]] :
       e \in [missing -> Embeddings] }

\* await ensureBundleEmbeddings(bundle) resolves
TopKEnsure ==
  /\ tpc = "start"
  /\ tbundle' \in EnsuredBundles(tbundle)
  /\ tpc' = "ensured"
  /\ UNCHANGED <<ttop_k, tqEmb, tscored, ttop, ttopNext>>
  /\ UNCHANGED nonT

\* ensureBundleEmbeddings or the embedding of the question throws
TopKFail ==
  /\ tpc \in {"start", "ensured"}
  /\ tpc' = "error"
  /\ UNCHANGED <<tbundle, ttop_k, tqEmb, tscored, ttop, ttopNext>>
  /\ UNCHANGED nonT

\* the embedding of the question arrives: lines 146-158
TopKRank ==
  /\ tpc = "ensured"
  /\ \E q \in Vectors :
       LET scored == [c \in 1..Len(tbundle) |->
                        [chunk |-> tbundle[c], score |-> ChunkScore(q, tbundle[c])]]
           sorted == SortByScore(scored, Len(scored))
       IN /\ tqEmb' = q
          /\ tscored' = sorted
          /\ ttop' = Slice0(sorted, EffectiveK(ttop_k))
  /\ tpc' = "ranked"
  /\ UNCHANGED <<tbundle, ttop_k, ttopNext>>
  /\ UNCHANGED nonT

\* lines 149-158 as a function of the bundle, the question's embedding and k
retrieveTopK(bundle, qEmb, k) ==
  LET scored == [c \in 1..Len(bundle) |->
                   [chunk |-> bundle[c], score |-> ChunkScore(qEmb, bundle[c])]]
  IN Slice0(SortByScore(scored, Len(scored)), k)

\* retrieveTopK(bundle, question, k + 1) on the same bundle object with the same
\* question.  The embeddings are deterministic: the question gets the embedding
\* it got before, and a chunk left without an embedding is left without again.
TopKRankNext ==
  /\ tpc = "ranked"
  /\ ttopNext' = retrieveTopK(tbundle, tqEmb, EffectiveK(ttop_k) + 1)
  /\ tpc' = "rankedNext"
  /\ UNCHANGED <<tbundle, ttop_k, tqEmb, tscored, ttop>>
  /\ UNCHANGED nonT

TopKBundles ==
  UNION { [1..n -> Embeddings] : n \in 1..MaxTopKChunks }

TIdle ==
  /\ tpc = "idle"
  /\ tbundle = <<>>
  /\ ttop_k = [given |-> FALSE, v |-> 0]
  /\ tqEmb = <<>>
  /\ tscored = <<>>
  /\ ttop = <<>>
  /\ ttopNext = <<>>

TInit ==
  /\ tpc = "start"
  /\ \E e \in TopKBundles :
       tbundle = [c \in 1..Len(e) |-> [chunk_id |-> c, embedding |-> e[c]]]
  /\ ttop_k \in TopKInputs
  /\ tqEmb = <<>>
  /\ tscored = <<>>
  /\ ttop = <<>>
  /\ ttopNext = <<>>

TNext == TopKEnsure \/ TopKFail \/ TopKRank \/ TopKRankNext

-----------------------------------------------------------------------------
(* Claims about retrieveTopK *)

RankDone == tpc = "ranked"

ScoreIsZero(s) == s.dot = 0

\* C10 (as stated): every chunk with no embedding is scored 0 and stands, in
\* the ranking, after every chunk that has an embedding.
C10_NoEmbeddingRankedLast ==
  RankDone =>
    \A i \in 1..Len(tscored) :
      ~tscored[i].chunk.embedding.has =>
        /\ ScoreIsZero(tscored[i].score)
        /\ \A j \in 1..Len(tscored) : tscored[j].chunk.embedding.has => j < i

\* C10 (amended): every chunk with no embedding is scored exactly 0, is ranked
\* like any chunk of score 0, that is after every chunk whose score is
\* greater than 0, and the ranking is made of all the chunks (none raises an
\* error).
C10_NoEmbeddingScoredZero ==
  RankDone =>
    /\ Len(tscored) = Len(tbundle)
    /\ \A i \in 1..Len(tscored) :
         ~tscored[i].chunk.embedding.has =>
           /\ ScoreIsZero(tscored[i].score)
           /\ \A j \in 1..Len(tscored) : tscored[j].score.dot > 0 => j < i

\* a chunk with no embedding is ranked between a chunk of positive and a chunk
\* of negative similarity
C10_Witness ==
  /\ RankDone
  /\ \E i, j, l \in 1..Len(tscored) :
       /\ j < i /\ i < l
       /\ ~tscored[i].chunk.embedding.has
       /\ tscored[j].score.dot > 0
       /\ tscored[l].chunk.embedding.has /\ tscored[l].score.dot < 0

SameScore(x, y) == ~ScoreLess(x, y) /\ ~ScoreLess(y, x)

\* C11: retrieveTopK returns at most k results for the k the route hands it,
\* their scores never increase along the result, and of two results with equal
\* scores the chunk that stands first in the bundle comes first.
C11_AtMostKSortedStable ==
  RankDone =>
    /\ Len(ttop) <= EffectiveK(ttop_k)
    /\ \A i, j \in 1..Len(ttop) :
         i < j =>
           /\ ~ScoreLess(ttop[i].score, ttop[j].score)
           /\ SameScore(ttop[i].score, ttop[j].score)
                => ttop[i].chunk.chunk_id < ttop[j].chunk.chunk_id

\* C12: the result for k is a prefix of the result for k + 1 on the same
\* bundle and question: the same chunks with the same scores, in the same order.
C12_PrefixOfNext ==
  tpc = "rankedNext" =>
    /\ Len(ttop) <= Len(ttopNext)
    /\ \A i \in 1..Len(ttop) : ttop[i] = ttopNext[i]

IsZeroVector(v) == \A i \in 1..Len(v) : v[i] = 0

\* C13: every score retrieveTopK computes from two vectors is a number in
\* [-1, 1]; it is exactly 0 when the question's or the chunk's vector has zero
\* magnitude, and the divisor is never 0.
C13_CosineInUnitInterval ==
  RankDone =>
    \A i \in 1..Len(tscored) :
      tscored[i].chunk.embedding.has =>
        /\ ScoreMagnitude(tscored[i].score) <= 0
        /\ tscored[i].score.na > 0 /\ tscored[i].score.nb > 0
        /\ IsZeroVector(tqEmb) \/ IsZeroVector(tscored[i].chunk.embedding.v)
             => tscored[i].score = ScoreZero

\* the squared norm of a vector, over all its components
NormSquared(v) == SumTo(v, v, Len(v), "na")

\* C26: the score of a chunk is dot(a, b) / (||a|| * ||b||) with the norm of
\* the query taken over all components of the query and the norm of the
\* embedding over all components of the embedding, also when the two vectors
\* differ in length.
C26_NormsOverOwnComponents ==
  RankDone =>
    \A i \in 1..Len(tscored) :
      LET v == tscored[i].chunk.embedding.v
      IN tscored[i].chunk.embedding.has /\ ~IsZeroVector(tqEmb) /\ ~IsZeroVector(v) =>
           /\ tscored[i].score.dot = SumTo(tqEmb, v, Min(Len(tqEmb), Len(v)), "dot")
           /\ tscored[i].score.na = NormSquared(tqEmb)
           /\ tscored[i].score.nb = NormSquared(v)

-----------------------------------------------------------------------------
(* mcp.js: createBundleForText, and the checks the routes make on a request
   before they do anything else *)

\* String(idx + 1).padStart(PadWidth, '0')
PadWidth == 3

\* the text of a request is a string of the characters "a" and " "; Missing is
\* a field the body does not have
Missing == <<"undefined">>

Pad(n) == [x \in 1..n |-> " "]
Body(n) == [x \in 1..n |-> "a"]

BTexts ==
  {Missing} \cup {Pad(i) \o Body(k) \o Pad(j) : i \in 0..MaxPad, j \in 0..MaxPad, k \in 0..MaxBody}

\* String.prototype.trim
RECURSIVE TrimStart(_)
TrimStart(t) == IF t # <<>> /\ Head(t) = " " THEN TrimStart(Tail(t)) ELSE t

RECURSIVE TrimEnd(_)
TrimEnd(t) ==
  IF t # <<>> /\ t[Len(t)] = " " THEN TrimEnd(SubSeq(t, 1, Len(t) - 1)) ELSE t

Trim(t) == TrimEnd(TrimStart(t))

\* !x for a field of the body: it is missing or the empty string
Falsy(x) == x = Missing \/ x = <<>>

\* makeBundleId: 'bundle-' + Date.now() + '-' + the first group of a uuid
makeBundleId(timestamp, short) == <<"bundle-", timestamp, "-", short>>

BundleIds == {makeBundleId(ts, "a") : ts \in 1..2}

\* String(n): the decimal digits of n
RECURSIVE StringOf(_)
StringOf(n) == IF n < 10 THEN <<n>> ELSE Append(StringOf(n \div 10), n % 10)

RECURSIVE padStart(_, _, _)
padStart(str, targetLength, padString) ==
  IF Len(str) >= targetLength THEN str
  ELSE padStart(<<padString>> \o str, targetLength, padString)

\* the id of a chunk without the zeros in front of its number
ChunkId_Unpadded(bundleId, idx) == bundleId \o <<"-chunk-">> \o StringOf(idx + 1)

\* line 226, idx the index of the chunk in rawChunks, from 0
ChunkId(bundleId, idx) ==
  bundleId \o <<"-chunk-">> \o padStart(StringOf(idx + 1), PadWidth, 0)

\* chunkText is modelled above; the chunk ids depend on how many chunks it
\* returned and on nothing else.  For a text that is not blank it returns at
\* least one chunk.
ChunkCounts == (1..MaxRawChunks) \cup {10 ^ PadWidth - 1, 10 ^ PadWidth}

NoBundle == [bundle_id |-> <<>>, chunk_ids |-> <<>>]

BundleFile(bundleId) == <<"bundle", bundleId>>
AuditFile(bundleId) == <<"result", bundleId>>

\* createBundleForText of lib/mcp.js: the error it throws, or the bundle it
\* builds and the file it writes
createBundleForText(text, bundleId, n) ==
  IF Falsy(text) \/ Falsy(Trim(text))
  THEN [thrown |-> TRUE, bundle |-> NoBundle, files |-> {}]
  ELSE [thrown |-> FALSE,
        bundle |-> [bundle_id |-> bundleId,
                    chunk_ids |-> [i \in 1..n |-> ChunkId(bundleId, i - 1)]],
        files |-> {BundleFile(bundleId)}]

\* the test of routes/simplify.js, line 113, without the test of the length
SimplifyRejects_EmptyOnly(text) == Falsy(text)

\* routes/simplify.js, line 113
SimplifyRejects(text) == Falsy(text) \/ Len(Trim(text)) < 10

\* routes/ask.js, line 204
AskRejects(bundle_id, question) == Falsy(bundle_id) \/ Falsy(question)

\* the bundles in storage when the request arrives
StoredIds == {makeBundleId(0, "a")}

BRequest(route, text, bundle_id, question) ==
  [route |-> route, text |-> text, bundle_id |-> bundle_id, question |-> question]

NoRequest == BRequest("none", Missing, Missing, Missing)

\* a caller of the library calls createBundleForText
CreateBundle(text, bundleId, n) ==
  /\ bpc = "idle"
  /\ breq' = BRequest("create", text, Missing, Missing)
  /\ LET made == createBundleForText(text, bundleId, n)
     IN /\ bres' = IF made.thrown THEN "thrown" ELSE "bundle"
        /\ bbundle' = made.bundle
        /\ bfiles' = made.files
  /\ bcalls' = 0
  /\ bpc' = "done"
  /\ UNCHANGED nonB

\* POST /api/simplify up to the call of the chat provider (lines 107-135)
SimplifyStart(text, bundleId, n) ==
  /\ bpc = "idle"
  /\ breq' = BRequest("simplify", text, Missing, Missing)
  /\ bcalls' = 0
  /\ IF SimplifyRejects(text)
     THEN /\ bres' = "400"
          /\ bpc' = "done"
          /\ UNCHANGED <<bbundle, bfiles>>
     ELSE LET made == createBundleForText(text, bundleId, n)
          IN IF made.thrown
             THEN /\ bres' = "500"
                  /\ bpc' = "done"
                  /\ UNCHANGED <<bbundle, bfiles>>
             ELSE /\ bres' = "pending"
                  /\ bpc' = "llm"
                  /\ bbundle' = made.bundle
                  /\ bfiles' = made.files
  /\ UNCHANGED nonB

\* callOpenAI answers: the audit file is written and the response sent
\* (lines 136-204)
SimplifyLLMOk ==
  /\ bpc = "llm"
  /\ bcalls' = bcalls + 1
  /\ bfiles' = bfiles \cup {AuditFile(bbundle.bundle_id)}
  /\ bres' = "200"
  /\ bpc' = "done"
  /\ UNCHANGED <<breq, bbundle>>
  /\ UNCHANGED nonB

\* callOpenAI throws (lines 137-140)
SimplifyLLMFail ==
  /\ bpc = "llm"
  /\ bcalls' = bcalls + 1
  /\ bres' = "500"
  /\ bpc' = "done"
  /\ UNCHANGED <<breq, bbundle, bfiles>>
  /\ UNCHANGED nonB

\* POST /api/ask up to the bundle it reads (lines 201-213)
AskValidate(bundle_id, question) ==
  /\ bpc = "idle"
  /\ breq' = BRequest("ask", Missing, bundle_id, question)
  /\ bcalls' = 0
  /\ IF AskRejects(bundle_id, question)
     THEN bres' = "400" /\ bpc' = "done"
     ELSE IF bundle_id \notin StoredIds
          THEN bres' = "404" /\ bpc' = "done"
          ELSE bres' = "pending" /\ bpc' = "answer"
  /\ UNCHANGED <<bbundle, bfiles>>
  /\ UNCHANGED nonB

\* the rest of POST /api/ask (lines 215-265), whose steps are modelled above:
\* it asks the embedding provider and the chat provider and answers
AskAnswerOk ==
  /\ bpc = "answer"
  /\ bcalls' = bcalls + 2
  /\ bres' = "200"
  /\ bpc' = "done"
  /\ UNCHANGED <<breq, bbundle, bfiles>>
  /\ UNCHANGED nonB

\* a provider fails and the handler answers 500 (lines 266-269)
AskAnswerFail ==
  /\ bpc = "answer"
  /\ bcalls' = bcalls + 1
  /\ bres' = "500"
  /\ bpc' = "done"
  /\ UNCHANGED <<breq, bbundle, bfiles>>
  /\ UNCHANGED nonB

BIdle ==
  /\ bpc = "idle"
  /\ breq = NoRequest
  /\ bres = "pending"
  /\ bbundle = NoBundle
  /\ bfiles = {}
  /\ bcalls = 0

AskFields == {Missing, <<>>, <<"a">>}

BNext ==
  \/ \E text \in BTexts, bundleId \in BundleIds, n \in ChunkCounts :
       CreateBundle(text, bundleId, n) \/ SimplifyStart(text, bundleId, n)
  \/ SimplifyLLMOk
  \/ SimplifyLLMFail
  \/ \E bundle_id \in AskFields \cup StoredIds, question \in AskFields :
       AskValidate(bundle_id, question)
  \/ AskAnswerOk
  \/ AskAnswerFail

-----------------------------------------------------------------------------
(* Claims about createBundleForText and the checks of the routes *)

\* the number a string of decimal digits stands for
RECURSIVE DecimalValue(_)
DecimalValue(ds) ==
  IF ds = <<>> THEN 0 ELSE 10 * DecimalValue(SubSeq(ds, 1, Len(ds) - 1)) + ds[Len(ds)]

\* ds is the number i in decimal digits, with zeros in front up to three digits
IsPaddedToThree(ds, i) ==
  /\ \A x \in 1..Len(ds) : ds[x] \in 0..9
  /\ DecimalValue(ds) = i
  /\ Len(ds) >= 3
  /\ Len(ds) > 3 => ds[1] # 0

IsPrefix(pre, str) == Len(pre) <= Len(str) /\ SubSeq(str, 1, Len(pre)) = pre

BundleBuilt == bpc = "done" /\ breq.route = "create" /\ bres = "bundle"

\* C18: in a bundle that createBundleForText built the chunk ids are pairwise
\* distinct, each begins with the bundle id, and the id of the i-th chunk,
\* counted from 1, is the bundle id, then "-chunk-", then i with zeros in front
\* up to three digits.
C18_ChunkIdsFromOrdinal ==
  BundleBuilt =>
    LET ids == bbundle.chunk_ids
        pre == bbundle.bundle_id \o <<"-chunk-">>
    IN /\ Cardinality({ids[i] : i \in 1..Len(ids)}) = Len(ids)
       /\ \A i \in 1..Len(ids) :
            /\ IsPrefix(bbundle.bundle_id, ids[i])
            /\ IsPrefix(pre, ids[i])
            /\ IsPaddedToThree(SubSeq(ids[i], Len(pre) + 1, Len(ids[i])), i)

\* a bundle whose last chunk has an ordinal of four digits
C18_Witness == BundleBuilt /\ Len(bbundle.chunk_ids) >= 10 ^ PadWidth

\* the input errors of the claim: no text, a blank text, at /api/simplify a
\* text of fewer than 10 characters once trimmed, at /api/ask no bundle_id or
\* no question
InputError(req) ==
  \/ /\ req.route \in {"create", "simplify"}
     /\ req.text = Missing \/ \A x \in 1..Len(req.text) : req.text[x] = " "
  \/ /\ req.route = "simplify"
     /\ req.text # Missing
     /\ Cardinality({x \in 1..Len(req.text) : req.text[x] # " "}) < 10
  \/ /\ req.route = "ask"
     /\ req.bundle_id \in {Missing, <<>>} \/ req.question \in {Missing, <<>>}

\* C20: a request with an input error is answered with the error in the step
\* that receives it: no file is written, no provider is called, and there is
\* no later step of the request.
C20_InputErrorRejectedFirst ==
  InputError(breq) =>
    /\ bpc = "done"
    /\ bres \in {"400", "thrown"}
    /\ bfiles = {}
    /\ bcalls = 0
    /\ bbundle = NoBundle

\* a text of nine characters between two spaces arrives at /api/simplify
C20_Witness ==
  /\ breq.route = "simplify"
  /\ breq.text # Missing
  /\ Len(breq.text) > 10
  /\ Len(Trim(breq.text)) = 9
  /\ bres = "400"

-----------------------------------------------------------------------------
(* The specifications: one component runs, the others stay idle *)

vars == <<vvars, cvars, evars, tvars, bvars>>

InitVerifier == VInit /\ CIdle /\ EIdle /\ TIdle /\ BIdle

SpecVerifier == InitVerifier /\ [][VNext]_vars

InitChunker == CInit /\ VIdle /\ EIdle /\ TIdle /\ BIdle

SpecChunker == InitChunker /\ [][CNext]_vars

InitEmbed == EInit /\ VIdle /\ CIdle /\ TIdle /\ BIdle

SpecEmbed == InitEmbed /\ [][ENext]_vars

InitTopK == TInit /\ VIdle /\ CIdle /\ EIdle /\ BIdle

SpecTopK == InitTopK /\ [][TNext]_vars

InitDelete == EInit /\ VIdle /\ CIdle /\ TIdle /\ BIdle

SpecDelete == InitDelete /\ [][DNext]_vars

InitBundle == BIdle /\ VIdle /\ CIdle /\ EIdle /\ TIdle

SpecBundle == InitBundle /\ [][BNext]_vars

====
